---- MODULE Spec2Model ----
(***************************************************************************)
(* Paster: a snippet store with a one-click copy.                          *)
(*                                                                         *)
(* Two revisions of the renderer are modelled side by side:                *)
(*   rev "A": src/src/App.tsx + src/src/utils/storage.ts                   *)
(*            (states default / editList / editItem, new items appended,   *)
(*            localStorage only);                                          *)
(*   rev "B": src/unnamed/part_000 (App) + src/unnamed/part_001 (storage)  *)
(*            + src/unnamed/part_002 (preload) + src/electron/main.ts      *)
(*            (states default / editItem, new items prepended, the         *)
(*            Electron file bridge when window.electronAPI exists).        *)
(* host is "browser" (no window.electronAPI) or "electron".                *)
(*                                                                         *)
(* Strings are sequences of one-character strings, so that trim() is a     *)
(* computation.  A JavaScript value is a record tagged by t; a stored      *)
(* text is a record tagged by kind.                                        *)
(***************************************************************************)
EXTENDS Integers, Sequences, FiniteSets, TLC

VARIABLES
    rev,          \* which revision of the renderer runs
    host,         \* "browser" | "electron"
    store,        \* text held by the persistent store the adapter writes
    inflight,     \* 'storage:save' invocations sent over IPC, not yet handled
    items,        \* useState<PasterItem[]>: the in-memory collection
    state,        \* useState<AppState>
    selectedIds,  \* useState<Set<string>> (rev A)
    editingItem,  \* useState<PasterItem | null>
    editLabel,    \* useState('')
    editContent,  \* useState('')
    toast,        \* useState<string | null>
    timers,       \* pending setTimeout(() => setToast(null), 2000) callbacks
    copying,      \* copyToClipboard promises not yet settled
    lastOp,       \* history: the UI handler that ran last, with its outcome
    call          \* the adapter function applied last (FnSpec), with its result

vars == <<rev, host, store, inflight, items, state, selectedIds,
          editingItem, editLabel, editContent, toast, timers, copying,
          lastOp, call>>

appVars == <<rev, host, store, inflight, items, state, selectedIds,
             editingItem, editLabel, editContent, toast, timers, copying,
             lastOp>>

-----------------------------------------------------------------------------
(* Bounds of the model *)

MaxItems == 2
MaxClock == 2
MaxInflight == 2
MaxTimers == 2
MaxCopying == 1

-----------------------------------------------------------------------------
(* Strings *)

Space == " "
\* what the user types into the label input: the empty string, a
\* whitespace-only string, a string that trimming changes, one that it keeps
LabelInputs == {<<>>, <<Space>>, <<Space, "a">>, <<"b">>}

\* what the user types into the content textarea
ContentInputs == {<<>>, <<Space>>, <<"c", Space>>}

RECURSIVE trimStart(_)
trimStart(s) ==
    IF s # <<>> /\ Head(s) = Space THEN trimStart(Tail(s)) ELSE s

RECURSIVE trimEnd(_)
trimEnd(s) ==
    IF s # <<>> /\ s[Len(s)] = Space
    THEN trimEnd(SubSeq(s, 1, Len(s) - 1))
    ELSE s

\* String.prototype.trim
trim(s) == trimEnd(trimStart(s))

\* a string is falsy exactly when it is empty
Falsy(s) == s = <<>>

RECURSIVE Digits(_)
Digits(n) == IF n < 10 THEN <<n>> ELSE Digits(n \div 10) \o <<n % 10>>

\* String(now): the decimal digits of a non-negative integer
String(n) == Digits(n)

-----------------------------------------------------------------------------
(* JavaScript values and stored texts *)

Null == [t |-> "null"]
JsObject == [t |-> "object"]
JsNumber == [t |-> "number"]
JsArray(elems) == [t |-> "array", elems |-> elems]
\* numbers JSON.parse yields that JSON.stringify prints as something else:
\* -0 (from "-0") and Infinity (from a literal beyond the double range)
JsNegZero == [t |-> "negzero"]
JsInfinity == [t |-> "infinity"]

IsArray(v) == v.t = "array"

\* the stored text: nothing stored, the empty string, text that is not JSON,
\* or JSON text of a value (canonical = exactly what JSON.stringify prints)
Absent == [kind |-> "absent"]
EmptyText == [kind |-> "empty"]
InvalidText == [kind |-> "invalid"]
JsonText(v, canonical) == [kind |-> "json", canonical |-> canonical, val |-> v]

\* what JSON.stringify prints for a value: -0 as 0, a non-finite number as
\* null, anything else as itself
PrintedValue(e) ==
    IF "t" \in DOMAIN e
    THEN CASE e.t = "negzero" -> JsNumber
           [] e.t = "infinity" -> Null
           [] OTHER -> e
    ELSE e

\* the value whose canonical text JSON.stringify(v) is
Printed(v) ==
    IF v.t = "array"
    THEN JsArray([i \in 1..Len(v.elems) |-> PrintedValue(v.elems[i])])
    ELSE PrintedValue(v)

JSON_stringify(v) == JsonText(Printed(v), TRUE)

JSON_parse_throws(text) == text.kind # "json"
JSON_parse(text) == text.val

NullToast == "<null>"

-----------------------------------------------------------------------------
(* Persistence adapter: src/src/utils/storage.ts (rev A),                  *)
(* src/unnamed/part_001 (rev B), src/electron/main.ts (file bridge)        *)

hasElectronStorage(h) == h = "electron"

\* the adapter talks to the Electron bridge only in rev B under Electron
UsesBridge(r, h) == r = "B" /\ hasElectronStorage(h)

\* a load that skips the first element of the stored array
loadFromLocalStorageSkipFirst(text) ==
    IF text.kind \in {"absent", "empty"} THEN JsArray(<<>>)
    ELSE IF JSON_parse_throws(text) THEN JsArray(<<>>)
    ELSE LET parsed == JSON_parse(text)
         IN  IF IsArray(parsed) /\ parsed.elems # <<>>
             THEN JsArray(Tail(parsed.elems))
             ELSE parsed

\* localStorage path shared by both revisions: getItem, !stored, try/parse/catch
loadFromLocalStorage(text) ==
    IF text.kind \in {"absent", "empty"} THEN JsArray(<<>>)
    ELSE IF JSON_parse_throws(text) THEN JsArray(<<>>)
    ELSE JSON_parse(text)

\* loadItems(): `text` is what localStorage holds under STORAGE_KEY
loadItems(r, h, text) ==
    IF r = "B" /\ hasElectronStorage(h) THEN JsArray(<<>>)
    ELSE loadFromLocalStorage(text)

\* main process: readFileSync throws on a missing file, JSON.parse on bad text
loadItemsFromDisk(text) ==
    IF text.kind = "absent" \/ JSON_parse_throws(text) THEN JsArray(<<>>)
    ELSE JSON_parse(text)

\* loadItemsAsync() of rev B: `disk` is the file behind the bridge
loadItemsAsync(h, text, disk) ==
    IF hasElectronStorage(h)
    THEN LET loaded == loadItemsFromDisk(disk)
         IN  IF IsArray(loaded) THEN loaded ELSE JsArray(<<>>)
    ELSE loadItems("B", h, text)

\* saveItemsToDisk / localStorage.setItem: the text written for a collection
saveItemsText(its) == JSON_stringify(JsArray(its))

\* saveItems(load()): the text the store holds afterwards.  `loader` is the
\* load function used; under the bridge loadItems() does not read the file
\* and loadItemsAsync() does, and both saves print JSON.stringify(items).
RoundTrip(r, h, loader, text) ==
    LET loaded == IF loader = "loadItemsAsync"
                  THEN loadItemsAsync(h, text, text)
                  ELSE loadItems(r, h, text)
    IN  JSON_stringify(loaded)

createItem(label, content, clock) ==
    [id |-> String(clock), label |-> label, content |-> content,
     createdAt |-> clock]

\* updateItem without the id test: every record takes the new label and content
updateItemAll(its, id, label, content) ==
    [i \in 1..Len(its) |->
        [its[i] EXCEPT !.label = label, !.content = content]]

updateItem(its, id, label, content) ==
    [i \in 1..Len(its) |->
        IF its[i].id = id
        THEN [its[i] EXCEPT !.label = label, !.content = content]
        ELSE its[i]]

includes(ids, x) == \E k \in 1..Len(ids) : ids[k] = x

RECURSIVE deleteItemsFirstOnly(_, _)
\* deleteItems testing the first requested id alone
deleteItemsFirstOnly(its, ids) ==
    IF its = <<>> THEN <<>>
    ELSE IF ids = <<>> \/ ids[1] # Head(its).id
         THEN <<Head(its)>> \o deleteItemsFirstOnly(Tail(its), ids)
         ELSE deleteItemsFirstOnly(Tail(its), ids)

RECURSIVE deleteItems(_, _)
deleteItems(its, ids) ==
    IF its = <<>> THEN <<>>
    ELSE IF ~includes(ids, Head(its).id)
         THEN <<Head(its)>> \o deleteItems(Tail(its), ids)
         ELSE deleteItems(Tail(its), ids)

RECURSIVE ArrayFrom(_)
\* Array.from(set): the members of the set in some order
ArrayFrom(S) ==
    IF S = {} THEN <<>>
    ELSE LET x == CHOOSE y \in S : TRUE IN <<x>> \o ArrayFrom(S \ {x})

-----------------------------------------------------------------------------
(* View controller: src/src/App.tsx (rev A), src/unnamed/part_000 (rev B)  *)

ItemIds(its) == {its[i].id : i \in 1..Len(its)}

\* saveItems called with the collection as it was before the mutation
SaveItemsStale(updated) ==
    IF UsesBridge(rev, host)
    THEN /\ Len(inflight) < MaxInflight
         /\ inflight' = Append(inflight, items)
         /\ UNCHANGED store
    ELSE /\ store' = saveItemsText(items)
         /\ UNCHANGED inflight

\* saveItems(updated): synchronous setItem, or an IPC invocation of
\* 'storage:save' that the main process handles later
SaveItems(updated) ==
    IF UsesBridge(rev, host)
    THEN /\ Len(inflight) < MaxInflight
         /\ inflight' = Append(inflight, updated)
         /\ UNCHANGED store
    ELSE /\ store' = saveItemsText(updated)
         /\ UNCHANGED inflight

\* the edit form (label input, content input, OK, Cancel) is on screen
FormRendered ==
    /\ state = "editItem"
    /\ IF rev = "B" /\ editingItem # Null
       THEN editingItem.id \in ItemIds(items)
       ELSE TRUE

\* the records whose pencil button is on screen
Editable ==
    IF rev = "A"
    THEN CASE state = "default" -> {items[i] : i \in 1..Len(items)}
           [] state = "editItem" ->
                {items[i] : i \in {j \in 1..Len(items) :
                    IF editingItem = Null THEN TRUE
                    ELSE items[j].id # editingItem.id}}
           [] OTHER -> {}
    ELSE IF state = "default" THEN {items[i] : i \in 1..Len(items)} ELSE {}

\* an "Add new" button drawn whatever the state, in both revisions
AddRenderedAlways == TRUE

\* the "Add new" button is on screen
AddRendered == IF rev = "A" THEN state \in {"default", "editItem"} ELSE TRUE

\* A new session: the window is opened again and App is mounted.  Rev A loads
\* in the mount effect, rev B in the useState initialiser; no handler runs
\* before either.  A session is closed only after its saves were handled.
Launch ==
    /\ inflight = <<>>
    /\ LET loaded == loadItems(rev, host, store)
       IN  items' = loaded.elems
    /\ state' = "default"
    /\ selectedIds' = {}
    /\ editingItem' = Null
    /\ editLabel' = <<>>
    /\ editContent' = <<>>
    /\ toast' = NullToast
    /\ timers' = 0
    /\ copying' = 0
    /\ lastOp' = "launch"
    /\ UNCHANGED <<rev, host, store, inflight, call>>

\* a main process that handles the newest pending invocation first
StorageSaveNewestFirst ==
    /\ inflight # <<>>
    /\ store' = saveItemsText(inflight[Len(inflight)])
    /\ inflight' = SubSeq(inflight, 1, Len(inflight) - 1)
    /\ UNCHANGED <<rev, host, items, state, selectedIds, editingItem,
                   editLabel, editContent, toast, timers, copying,
                   lastOp, call>>

\* ipcMain.handle('storage:save'): saveItemsToDisk(items)
StorageSave ==
    /\ inflight # <<>>
    /\ store' = saveItemsText(Head(inflight))
    /\ inflight' = Tail(inflight)
    /\ UNCHANGED <<rev, host, items, state, selectedIds, editingItem,
                   editLabel, editContent, toast, timers, copying,
                   lastOp, call>>

\* handleCopy without its test of the state
HandleCopyUnguarded(content) ==
    /\ copying < MaxCopying
    /\ copying' = copying + 1
    /\ lastOp' = "copy"
    /\ UNCHANGED <<rev, host, store, inflight, items, state, selectedIds,
                   editingItem, editLabel, editContent, toast, timers, call>>

\* handleCopy(content), up to the await
HandleCopy(content) ==
    IF state # "default"
    THEN /\ lastOp' = "copyIgnored"
         /\ UNCHANGED <<rev, host, store, inflight, items, state,
                        selectedIds, editingItem, editLabel, editContent,
                        toast, timers, copying, call>>
    ELSE /\ copying < MaxCopying
         /\ copying' = copying + 1
         /\ lastOp' = "copy"
         /\ UNCHANGED <<rev, host, store, inflight, items, state,
                        selectedIds, editingItem, editLabel, editContent,
                        toast, timers, call>>

\* showToast(message)
ShowToast ==
    /\ timers < MaxTimers
    /\ toast' = "Copied!"
    /\ timers' = timers + 1

\* what copyToClipboard(content) resolves to: written, or access refused
CopyOutcomes == BOOLEAN

\* handleCopy after the await: copyToClipboard settled with `success`
CopySettled(success) ==
    /\ copying > 0
    /\ copying' = copying - 1
    /\ IF success THEN ShowToast ELSE UNCHANGED <<toast, timers>>
    /\ UNCHANGED <<rev, host, store, inflight, items, state,
                   selectedIds, editingItem, editLabel, editContent,
                   lastOp, call>>

\* the callback of setTimeout(() => setToast(null), 2000)
ToastTimeout ==
    /\ timers > 0
    /\ timers' = timers - 1
    /\ toast' = NullToast
    /\ UNCHANGED <<rev, host, store, inflight, items, state,
                   selectedIds, editingItem, editLabel, editContent, copying, lastOp, call>>

\* toggleEditList (rev A): the header button, shown in default and editList
ToggleEditList ==
    /\ rev = "A"
    /\ state \in {"default", "editList"}
    /\ IF state = "editList"
       THEN state' = "default" /\ selectedIds' = {}
       ELSE state' = "editList" /\ UNCHANGED selectedIds
    /\ lastOp' = "toggleEditList"
    /\ UNCHANGED <<rev, host, store, inflight, items, editingItem,
                   editLabel, editContent, toast, timers, copying,
                   call>>

\* toggleSelection(id) (rev A): the checkbox of a record shown in editList
ToggleSelection(id) ==
    /\ rev = "A"
    /\ state = "editList"
    /\ id \in ItemIds(items)
    /\ selectedIds' = IF id \in selectedIds
                      THEN selectedIds \ {id}
                      ELSE selectedIds \cup {id}
    /\ lastOp' = "toggleSelection"
    /\ UNCHANGED <<rev, host, store, inflight, items, state,
                   editingItem, editLabel, editContent, toast, timers, copying, call>>

\* handleDeleteSelected (rev A)
HandleDeleteSelected ==
    /\ rev = "A"
    /\ state = "editList"
    /\ IF selectedIds = {}
       THEN /\ lastOp' = "deleteSelectedIgnored"
            /\ UNCHANGED <<store, inflight, items, state, selectedIds>>
       ELSE LET updated == deleteItems(items, ArrayFrom(selectedIds))
            IN  /\ items' = updated
                /\ SaveItems(updated)
                /\ selectedIds' = {}
                /\ state' = "default"
                /\ lastOp' = "deleteSelected"
    /\ UNCHANGED <<rev, host, editingItem, editLabel, editContent,
                   toast, timers, copying, call>>

\* startEdit(item): item is a record on screen, or Null for "Add new";
\* lastOp tells a start during an edit from a start out of default
StartEdit(item) ==
    /\ \/ item = Null /\ AddRendered
       \/ item \in Editable
    /\ editingItem' = item
    /\ editLabel' = IF item # Null THEN item.label ELSE <<>>
    /\ editContent' = IF item # Null THEN item.content ELSE <<>>
    /\ state' = "editItem"
    /\ lastOp' = IF state = "editItem" THEN "restartEdit" ELSE "startEdit"
    /\ UNCHANGED <<rev, host, store, inflight, items, selectedIds,
                   toast, timers, copying, call>>

\* onChange of the label input
SetEditLabel(v) ==
    /\ FormRendered
    /\ editLabel' = v
    /\ lastOp' = "setEditLabel"
    /\ UNCHANGED <<rev, host, store, inflight, items, state,
                   selectedIds, editingItem, editContent, toast, timers,
                   copying, call>>

\* onChange of the content textarea
SetEditContent(v) ==
    /\ FormRendered
    /\ editContent' = v
    /\ lastOp' = "setEditContent"
    /\ UNCHANGED <<rev, host, store, inflight, items, state,
                   selectedIds, editingItem, editLabel, toast, timers,
                   copying, call>>

\* cancelEdit that forgets setEditingItem(null)
CancelEditKeepsTarget ==
    /\ FormRendered
    /\ state' = "default"
    /\ editLabel' = <<>>
    /\ editContent' = <<>>
    /\ lastOp' = "cancel"
    /\ UNCHANGED <<rev, host, store, inflight, items, selectedIds,
                   editingItem, toast, timers, copying, call>>

\* cancelEdit (rev A) / resetEdit as onCancel (rev B)
CancelEdit ==
    /\ FormRendered
    /\ state' = "default"
    /\ editingItem' = Null
    /\ editLabel' = <<>>
    /\ editContent' = <<>>
    /\ lastOp' = "cancel"
    /\ UNCHANGED <<rev, host, store, inflight, items, selectedIds,
                   toast, timers, copying, call>>

\* the readings Date.now() may give
Clock == 1..MaxClock

\* handleSave committing the buffers as typed, without trim()
SavedItemsUntrimmed(now) ==
    IF editingItem # Null
    THEN updateItem(items, editingItem.id, editLabel, editContent)
    ELSE LET newItem == createItem(editLabel, editContent, now)
         IN  IF rev = "A" THEN Append(items, newItem)
                          ELSE <<newItem>> \o items

\* the collection handleSave commits when Date.now() reads `now`
SavedItems(now) ==
    IF editingItem # Null
    THEN updateItem(items, editingItem.id, trim(editLabel), trim(editContent))
    ELSE LET newItem == createItem(trim(editLabel), trim(editContent), now)
         IN  IF rev = "A" THEN Append(items, newItem)
                          ELSE <<newItem>> \o items

\* the guard of handleSave testing the label alone
BuffersBlankLabelOnly == Falsy(trim(editLabel))

\* !editLabel.trim() || !editContent.trim()
BuffersBlank == Falsy(trim(editLabel)) \/ Falsy(trim(editContent))

\* handleSave, with Date.now() reading `now`
HandleSave(now) ==
    /\ FormRendered
    /\ IF BuffersBlank
       THEN /\ lastOp' = "saveBlank"
            /\ UNCHANGED <<store, inflight, items, state, editingItem,
                           editLabel, editContent>>
       ELSE /\ editingItem = Null => Len(items) < MaxItems
            /\ items' = SavedItems(now)
            /\ SaveItems(SavedItems(now))
            /\ state' = "default"
            /\ editingItem' = Null
            /\ editLabel' = <<>>
            /\ editContent' = <<>>
            /\ lastOp' = IF editingItem # Null THEN "saveUpdate"
                                               ELSE "saveCreate"
    /\ UNCHANGED <<rev, host, selectedIds, toast, timers, copying, call>>

\* handleDelete(id) with the trash buttons drawn in every state
HandleDeleteAnyState(id) ==
    /\ rev = "B"
    /\ id \in ItemIds(items)
    /\ LET updated == deleteItems(items, <<id>>)
       IN  /\ items' = updated
           /\ SaveItems(updated)
    /\ lastOp' = "delete"
    /\ UNCHANGED <<rev, host, state, selectedIds, editingItem,
                   editLabel, editContent, toast, timers, copying, call>>

\* handleDelete(id) (rev B): the trash button of a record, shown in default
HandleDelete(id) ==
    /\ rev = "B"
    /\ state = "default"
    /\ id \in ItemIds(items)
    /\ LET updated == deleteItems(items, <<id>>)
       IN  /\ items' = updated
           /\ SaveItems(updated)
    /\ lastOp' = "delete"
    /\ UNCHANGED <<rev, host, state, selectedIds, editingItem,
                   editLabel, editContent, toast, timers, copying, call>>

-----------------------------------------------------------------------------
(* The application *)

NoCall == [fn |-> "none"]

\* first launch of a fresh installation: nothing stored yet
Init ==
    /\ rev \in {"A", "B"}
    /\ host \in {"browser", "electron"}
    /\ store = Absent
    /\ inflight = <<>>
    /\ items = loadItems(rev, host, store).elems
    /\ state = "default"
    /\ selectedIds = {}
    /\ editingItem = Null
    /\ editLabel = <<>>
    /\ editContent = <<>>
    /\ toast = NullToast
    /\ timers = 0
    /\ copying = 0
    /\ lastOp = "launch"
    /\ call = NoCall

Next ==
    \/ Launch
    \/ StorageSave
    \/ \E i \in 1..Len(items) : HandleCopy(items[i].content)
    \/ \E success \in CopyOutcomes : CopySettled(success)
    \/ ToastTimeout
    \/ ToggleEditList
    \/ \E id \in ItemIds(items) : ToggleSelection(id)
    \/ HandleDeleteSelected
    \/ \E item \in {Null} \cup {items[i] : i \in 1..Len(items)} : StartEdit(item)
    \/ \E v \in LabelInputs : SetEditLabel(v)
    \/ \E v \in ContentInputs : SetEditContent(v)
    \/ CancelEdit
    \/ \E now \in Clock : HandleSave(now)
    \/ \E id \in ItemIds(items) : HandleDelete(id)

Spec == Init /\ [][Next]_vars

-----------------------------------------------------------------------------
(* The adapter's functions applied to drawn inputs *)

MaxFnLen == 3

FnIds == {String(k) : k \in 1..(MaxClock + 1)}
FnLabels == {<<"a">>, <<"b">>}
FnContents == {<<"c">>, <<"d">>}
FnItems ==
    {createItem(l, c, k) : l \in FnLabels, c \in FnContents, k \in 1..MaxClock}
FnCollections == UNION {[1..n -> FnItems] : n \in 0..MaxFnLen}
FnIdArrays == UNION {[1..n -> FnIds] : n \in 0..2}

\* stored texts: nothing, the empty string, text that is not JSON, JSON of a
\* non-array, JSON of an array holding a non-snippet, JSON of collections
FnJsonValues ==
    {Null, JsObject, JsArray(<<JsNumber>>)}
        \cup {JsArray(its) : its \in UNION {[1..n -> FnItems] : n \in 0..1}}
FnTexts ==
    {Absent, EmptyText, InvalidText}
        \cup {JsonText(v, canonical) : v \in FnJsonValues, canonical \in BOOLEAN}

CallUpdateItem ==
    /\ call = NoCall
    /\ \E its \in FnCollections, id \in FnIds, l \in FnLabels, c \in FnContents :
         call' = [fn |-> "updateItem", items |-> its, id |-> id, label |-> l,
                  content |-> c, result |-> updateItem(its, id, l, c)]
    /\ UNCHANGED appVars

CallDeleteItems ==
    /\ call = NoCall
    /\ \E its \in FnCollections, ids \in FnIdArrays :
         call' = [fn |-> "deleteItems", items |-> its, ids |-> ids,
                  result |-> deleteItems(its, ids)]
    /\ UNCHANGED appVars

CallLoadItems ==
    /\ call = NoCall
    /\ \E r \in {"A", "B"}, h \in {"browser", "electron"}, text \in FnTexts :
         call' = [fn |-> "loadItems", rev |-> r, host |-> h, text |-> text,
                  result |-> loadItems(r, h, text)]
    /\ UNCHANGED appVars

CallLoadItemsFromDisk ==
    /\ call = NoCall
    /\ \E text \in FnTexts :
         call' = [fn |-> "loadItemsFromDisk", text |-> text,
                  result |-> loadItemsFromDisk(text)]
    /\ UNCHANGED appVars

CallLoadItemsAsync ==
    /\ call = NoCall
    /\ \E h \in {"browser", "electron"}, text \in FnTexts, disk \in FnTexts :
         call' = [fn |-> "loadItemsAsync", host |-> h,
                  text |-> IF hasElectronStorage(h) THEN disk ELSE text,
                  result |-> loadItemsAsync(h, text, disk)]
    /\ UNCHANGED appVars

\* stored texts for the round trip: those above, JSON of values that
\* JSON.stringify prints differently, JSON of collections of two records
FnRoundTripTexts ==
    FnTexts
        \cup {JsonText(v, canonical) :
                v \in {JsNegZero, JsInfinity, JsArray(<<JsNegZero, JsNumber>>)},
                canonical \in {FALSE}}
        \cup {JsonText(JsArray(its), canonical) :
                its \in [1..2 -> FnItems], canonical \in BOOLEAN}

\* rev A has loadItems alone; rev B has loadItems and loadItemsAsync
CallRoundTrip ==
    /\ call = NoCall
    /\ \E r \in {"A", "B"}, h \in {"browser", "electron"},
          loader \in {"loadItems", "loadItemsAsync"}, text \in FnRoundTripTexts :
         /\ loader = "loadItemsAsync" => r = "B"
         /\ call' = [fn |-> "roundTrip", rev |-> r, host |-> h,
                     loader |-> loader, text |-> text,
                     once |-> RoundTrip(r, h, loader, text),
                     twice |-> RoundTrip(r, h, loader,
                                         RoundTrip(r, h, loader, text))]
    /\ UNCHANGED appVars

FnInit == Init /\ rev = "A" /\ host = "browser"

FnNext ==
    \/ CallUpdateItem
    \/ CallDeleteItems
    \/ CallLoadItems
    \/ CallLoadItemsFromDisk
    \/ CallLoadItemsAsync
    \/ CallRoundTrip

FnSpec == FnInit /\ [][FnNext]_vars

-----------------------------------------------------------------------------
(* Vocabulary of the properties *)

\* a string is blank when it is empty or holds nothing but whitespace
Blank(s) == \A i \in 1..Len(s) : s[i] = Space

\* a string without its leading and trailing whitespace
Trimmed(s) ==
    LET solid == {i \in 1..Len(s) : s[i] # Space}
    IN  IF solid = {} THEN <<>>
        ELSE SubSeq(s, CHOOSE i \in solid : \A j \in solid : i <= j,
                       CHOOSE i \in solid : \A j \in solid : j <= i)

IsSnippet(e) == DOMAIN e = {"id", "label", "content", "createdAt"}

\* a JavaScript value that is a sequence of snippets
IsSnippetArray(v) ==
    /\ v.t = "array"
    /\ \A i \in 1..Len(v.elems) : IsSnippet(v.elems[i])

\* the stored text deserializes to a sequence of snippets
HoldsSnippets(text) ==
    /\ text.kind = "json"
    /\ IsSnippetArray(text.val)

\* the sequence of snippets a stored text holds (none: the empty sequence)
PersistedItems(text) == IF HoldsSnippets(text) THEN text.val.elems ELSE <<>>

\* a step of the handler that sets lastOp to op
Handled(op) == lastOp' = op /\ (lastOp # op \/ items' # items)

CommitOps == {"saveCreate", "saveUpdate", "delete", "deleteSelected"}

Committed == \E op \in CommitOps : Handled(op)

-----------------------------------------------------------------------------
(* Properties *)

\* C1: no two records of the collection have the same id, whatever the
\* sequence of create-saves, update-saves and deletes and whatever Date.now()
\* read at each creation.
C1_UniqueIds ==
    \A i, j \in 1..Len(items) : i # j => items[i].id # items[j].id

\* C2: right after startup, before any handler ran, the in-memory collection
\* is the sequence the persistent store holds, in every revision and host.
C2_LoadedAtStartup ==
    lastOp = "launch" => items = PersistedItems(store)

C4_CopyOnlyInDefault ==
    [][/\ copying' > copying => state = "default"
       /\ Handled("copy") => state = "default"
       /\ timers' > timers => copying' < copying
       /\ Handled("copyIgnored")
            => /\ state # "default"
               /\ UNCHANGED <<store, inflight, items, state, selectedIds,
                              editingItem, editLabel, editContent, toast,
                              timers, copying>>
      ]_vars

\* C4 witness: a copy was requested during an edit, with nothing being
\* written and no acknowledgment on screen.
C4_Witness ==
    /\ lastOp = "copyIgnored"
    /\ state = "editItem"
    /\ copying = 0
    /\ toast = NullToast

\* C5: save with a blank label buffer or a blank content buffer changes
\* nothing (collection, store, pending saves, state, target, buffers), and no
\* save commits from a blank buffer.
C5_BlankSaveIsNoOp ==
    [][/\ Handled("saveBlank")
            => /\ state = "editItem"
               /\ Blank(editLabel) \/ Blank(editContent)
               /\ UNCHANGED <<store, inflight, items, state, selectedIds,
                              editingItem, editLabel, editContent>>
       /\ (Handled("saveCreate") \/ Handled("saveUpdate"))
            => ~Blank(editLabel) /\ ~Blank(editContent)
      ]_vars

\* C5 witness: save was requested on a record's edit with a whitespace-only
\* content buffer and a non-blank label buffer.
C5_Witness ==
    /\ lastOp = "saveBlank"
    /\ state = "editItem"
    /\ editingItem # Null
    /\ ~Blank(editLabel)
    /\ editContent = <<Space>>

RemoveAt(seq, k) == SubSeq(seq, 1, k - 1) \o SubSeq(seq, k + 1, Len(seq))

\* C6: save with both buffers non-blank commits and returns to default with
\* target and buffers cleared: without a target the collection gains exactly
\* one record, carrying the trimmed buffers; with a target it keeps its length
\* and exactly the records with the target's id take the trimmed buffers.
C6_SaveCommits ==
    [][/\ Handled("saveBlank") => Blank(editLabel) \/ Blank(editContent)
       /\ Handled("saveCreate")
            => /\ state = "editItem" /\ editingItem = Null
               /\ Len(items') = Len(items) + 1
               /\ \E k \in 1..Len(items') :
                    /\ RemoveAt(items', k) = items
                    /\ items'[k].label = Trimmed(editLabel)
                    /\ items'[k].content = Trimmed(editContent)
       /\ Handled("saveUpdate")
            => /\ state = "editItem" /\ editingItem # Null
               /\ Len(items') = Len(items)
               /\ \A i \in 1..Len(items) :
                    items'[i] =
                        IF items[i].id = editingItem.id
                        THEN [id |-> items[i].id,
                              label |-> Trimmed(editLabel),
                              content |-> Trimmed(editContent),
                              createdAt |-> items[i].createdAt]
                        ELSE items[i]
       /\ (Handled("saveCreate") \/ Handled("saveUpdate"))
            => /\ state' = "default"
               /\ editingItem' = Null
               /\ editLabel' = <<>>
               /\ editContent' = <<>>
      ]_vars

\* C6 witness: from the empty collection, a save of buffers that needed
\* trimming left exactly one record with the trimmed label and content.
C6_Witness ==
    /\ lastOp = "saveCreate"
    /\ state = "default"
    /\ Len(items) = 1
    /\ items[1].label = <<"a">>
    /\ items[1].content = <<"c">>

\* C7: cancel returns to default with target and buffers cleared, and changes
\* neither the collection nor the store nor the pending saves.  While the
\* edit is in progress the collection does not change and no save is issued;
\* the store changes then only when the bridge handles a save that was issued
\* before the edit began, so where saves are synchronous it does not change.
C7_CancelDiscards ==
    [][/\ Handled("cancel")
            => /\ state = "editItem"
               /\ state' = "default"
               /\ editingItem' = Null
               /\ editLabel' = <<>>
               /\ editContent' = <<>>
               /\ UNCHANGED <<store, inflight, items>>
       /\ (state = "editItem" /\ state' = "editItem")
            => /\ items' = items
               /\ \/ inflight' = inflight
                  \/ inflight # <<>> /\ inflight' = Tail(inflight)
               /\ store' # store
                    => /\ UsesBridge(rev, host)
                       /\ inflight # <<>>
                       /\ inflight' = Tail(inflight)
                       /\ store' = JsonText(JsArray(Head(inflight)), TRUE)
      ]_vars

\* C7 witness: an edit of a record was cancelled.
C7_Witness ==
    /\ lastOp = "cancel"
    /\ state = "default"
    /\ editingItem = Null
    /\ editLabel = <<>>
    /\ editContent = <<>>
    /\ items # <<>>

\* C8: updateItem keeps length and order, leaves every record with another
\* id as it was, gives the records with the id the new label and content
\* while keeping their id and createdAt, and returns its input when no
\* record has the id.
C8_UpdateItemFrame ==
    call.fn = "updateItem" =>
        /\ Len(call.result) = Len(call.items)
        /\ \A i \in 1..Len(call.items) :
             IF call.items[i].id = call.id
             THEN /\ call.result[i].id = call.items[i].id
                  /\ call.result[i].createdAt = call.items[i].createdAt
                  /\ call.result[i].label = call.label
                  /\ call.result[i].content = call.content
             ELSE call.result[i] = call.items[i]
        /\ (\A i \in 1..Len(call.items) : call.items[i].id # call.id)
             => call.result = call.items

\* C8 witness: an update of one record of three, whose label and content
\* both change, next to records with another id.
C8_Witness ==
    /\ call.fn = "updateItem"
    /\ Len(call.items) = 3
    /\ call.items[2].id = call.id
    /\ call.items[1].id # call.id
    /\ call.items[3].id # call.id
    /\ call.items[2].label # call.label
    /\ call.items[2].content # call.content
    /\ call.result # call.items

\* the positions of `its` whose record is not requested by `ids`
KeptPositions(its, ids) ==
    {i \in 1..Len(its) : \A k \in 1..Len(ids) : ids[k] # its[i].id}

\* C9: deleteItems returns the records whose id is not requested, unchanged
\* and in their original relative order, and nothing else; requesting only
\* ids that name no record returns the input.
C9_DeleteItemsExact ==
    call.fn = "deleteItems" =>
        LET kept == KeptPositions(call.items, call.ids)
        IN  /\ Len(call.result) = Cardinality(kept)
            /\ \A i \in kept :
                 call.result[Cardinality({j \in kept : j <= i})] = call.items[i]
            /\ (\A k \in 1..Len(call.ids) : call.ids[k] \notin ItemIds(call.items))
                 => call.result = call.items

\* C9 witness: of three records the middle one is removed, by a request that
\* also names an id no record has.
C9_Witness ==
    /\ call.fn = "deleteItems"
    /\ Len(call.items) = 3
    /\ Len(call.ids) = 2
    /\ call.ids[1] \notin ItemIds(call.items)
    /\ call.ids[2] = call.items[2].id
    /\ call.result = <<call.items[1], call.items[3]>>

\* the handlers built on deleteItems remove exactly the requested records
HandlersDeleteExact ==
    [][/\ Handled("delete")
            => \E id \in ItemIds(items) :
                 LET kept == KeptPositions(items, <<id>>)
                 IN  /\ Len(items') = Cardinality(kept)
                     /\ \A i \in kept :
                          items'[Cardinality({j \in kept : j <= i})] = items[i]
       /\ Handled("deleteSelected")
            => /\ selectedIds # {}
               /\ Len(items') =
                    Cardinality({i \in 1..Len(items) : items[i].id \notin selectedIds})
               /\ \A i \in 1..Len(items') : items'[i].id \notin selectedIds
               /\ \A i \in 1..Len(items) :
                    items[i].id \notin selectedIds
                        => \E k \in 1..Len(items') : items'[k] = items[i]
      ]_vars

\* C10: every load function returns a sequence of snippets, whatever the store
\* holds, and the empty sequence when the stored text does not deserialize to
\* a sequence of snippets.
C10_LoadFailsSoft ==
    call.fn \in {"loadItems", "loadItemsFromDisk", "loadItemsAsync"} =>
        /\ IsSnippetArray(call.result)
        /\ ~HoldsSnippets(call.text) => call.result = JsArray(<<>>)

\* C11 as stated: a save is issued only when no earlier save is outstanding,
\* so no two saves are in progress at once, and a save that leaves none
\* outstanding leaves the store holding the in-memory collection.
C11_NoTwoSavesOutstanding ==
    [][/\ Len(inflight') > Len(inflight) => inflight = <<>>
       /\ Len(inflight') <= 1
       /\ (Len(inflight') < Len(inflight) /\ inflight' = <<>>)
            => store' = JsonText(JsArray(items'), TRUE)
      ]_vars

\* C11 amended: over the bridge a mutation issues its save whether or not
\* earlier saves are outstanding; the outstanding saves are in the order of
\* their mutations, the newest carrying the in-memory collection; the main
\* process handles them one at a time, oldest first, each overwriting the
\* store with the collection it carries; so when the last one is handled the
\* store holds the collection of the last mutation.
C11_SavesHandledInOrder ==
    [][/\ (Committed /\ UsesBridge(rev, host))
            => inflight' = Append(inflight, items') /\ store' = store
       /\ inflight' # <<>> => inflight'[Len(inflight')] = items'
       /\ inflight' # inflight
            => \/ inflight' = Append(inflight, items')
               \/ /\ inflight # <<>>
                  /\ inflight' = Tail(inflight)
                  /\ store' = JsonText(JsArray(Head(inflight)), TRUE)
       /\ (inflight # <<>> /\ inflight' = <<>>)
            => store' = JsonText(JsArray(items'), TRUE)
      ]_vars

\* C11 witness: two saves are outstanding at once, the older carrying the
\* collection of the earlier mutation, while the store still holds neither.
C11_Witness ==
    /\ Len(inflight) = 2
    /\ inflight[1] # inflight[2]
    /\ inflight[2] = items
    /\ store # JsonText(JsArray(inflight[1]), TRUE)
    /\ store # JsonText(JsArray(inflight[2]), TRUE)

\* C12: the acknowledgment set by a successful copy stays shown until the
\* timer started by that same copy fires, also when an earlier copy's timer
\* is still pending (timers of equal delay fire in the order they were
\* started, so the newest copy's timer is pending as long as any is), and
\* once no timer is pending the acknowledgment is cleared.
C12_ToastLastsFullPeriod ==
    /\ timers > 0 => toast = "Copied!"
    /\ timers = 0 => toast = NullToast

\* the steps of a running session (a launch mounts a new controller)
InSession == lastOp' # "launch"

SaveOrCancel == {"saveCreate", "saveUpdate", "cancel"}

\* the changes of state the controller makes, each by its operation
ListedStateChange ==
    \/ state = "default" /\ state' = "editItem" /\ lastOp' = "startEdit"
    \/ state = "editItem" /\ state' = "default" /\ lastOp' \in SaveOrCancel
    \/ /\ rev = "A"
       /\ state = "default" /\ state' = "editList"
       /\ lastOp' = "toggleEditList"
    \/ /\ rev = "A"
       /\ state = "editList" /\ state' = "default"
       /\ lastOp' \in {"toggleEditList", "deleteSelected"}

\* C13 as stated: the state changes only as listed, startEdit is taken only
\* from default, and an edit in progress (its target, its buffers as seeded)
\* is ended only by save or cancel.
C13_StartEditOnlyFromDefault ==
    [][InSession =>
        /\ state' # state => ListedStateChange
        /\ lastOp' \in {"startEdit", "restartEdit"} /\ lastOp' # lastOp
             => state = "default"
        /\ (state = "editItem" /\ editingItem' # editingItem)
             => lastOp' \in SaveOrCancel
      ]_vars

\* C13 amended: the state changes only as listed; startEdit is taken from
\* default and also from editItem, where it keeps the state and replaces the
\* target and the buffers, so an edit in progress is ended by save, by cancel
\* or by another startEdit; startEdit is never taken from editList, and
\* editList and editItem are never entered from one another.
C13_StateChanges ==
    [][InSession =>
        /\ state' # state => ListedStateChange
        /\ lastOp' = "startEdit" /\ lastOp' # lastOp
             => state = "default" /\ state' = "editItem"
        /\ lastOp' = "restartEdit" /\ lastOp' # lastOp
             => /\ state = "editItem" /\ state' = "editItem"
                /\ \/ editingItem' = Null
                      /\ editLabel' = <<>> /\ editContent' = <<>>
                   \/ /\ editingItem' # Null
                      /\ rev = "A"
                      /\ editLabel' = editingItem'.label
                      /\ editContent' = editingItem'.content
                /\ UNCHANGED <<items, store, inflight, selectedIds>>
        /\ state = "editList" => lastOp' \notin {"startEdit", "restartEdit"}
        /\ (state = "editItem" /\ editingItem' # editingItem)
             => lastOp' \in SaveOrCancel \cup {"restartEdit"}
        /\ ~(state = "editList" /\ state' = "editItem")
        /\ ~(state = "editItem" /\ state' = "editList")
      ]_vars

\* C13 witness: during the edit of a record, startEdit was taken for another
\* record; the state is still editItem and the buffers hold the new target.
C13_Witness ==
    /\ lastOp = "restartEdit"
    /\ state = "editItem"
    /\ editingItem # Null
    /\ Len(items) = 2
    /\ editLabel = editingItem.label
    /\ editContent = editingItem.content

\* C14: whatever the store holds, in every revision and host and with either
\* load function, saveItems(load()) applied a second time leaves the store
\* text the first application left.
C14_RoundTripIdempotent ==
    call.fn = "roundTrip" => call.twice = call.once

\* C14 witness: the store held a text JSON.stringify would not have printed,
\* of an array whose first element prints differently; the first round trip
\* rewrote it and the second left it alone.
C14_Witness ==
    /\ call.fn = "roundTrip"
    /\ call.text = JsonText(JsArray(<<JsNegZero, JsNumber>>), FALSE)
    /\ call.once = JsonText(JsArray(<<JsNumber, JsNumber>>), TRUE)
    /\ call.once # call.text
    /\ call.twice = call.once

\* C15: the data of a mode is consistent with the mode: outside editItem the
\* target is null and both buffers are empty; outside editList nothing is
\* selected; in editList every selected id is the id of a record; in editItem
\* a non-null target has the id of a record of the collection.
C15_ModeScopedData ==
    /\ state # "editItem"
         => editingItem = Null /\ editLabel = <<>> /\ editContent = <<>>
    /\ state # "editList" => selectedIds = {}
    /\ state = "editList" => selectedIds \subseteq ItemIds(items)
    /\ (state = "editItem" /\ editingItem # Null)
         => editingItem.id \in ItemIds(items)

\* C15 witness: an edit that was switched to another record, its buffers
\* retyped since, next to a collection of two records.
C15_Witness ==
    /\ state = "editItem"
    /\ editingItem # Null
    /\ Len(items) = 2
    /\ editingItem.id = items[2].id
    /\ lastOp = "setEditContent"
    /\ editLabel # editingItem.label
    /\ editContent # editingItem.content
    /\ selectedIds = {}

=============================================================================
